---- MODULE Spec2Model ----
(***************************************************************************)
(* A model of the simple-hash crate: the Hasher / Hashable traits, the     *)
(* Sha256 adapter, the Hashable impls of the primitive and container types *)
(* (src/src/lib.rs) and the derive macro hashable_derive                   *)
(* (src/simple-hash-macro/src/lib.rs).                                     *)
(*                                                                         *)
(* A program is a crate (the items that carry #[derive(Hashable)]) that is *)
(* first expanded item by item, and then, if no expansion panicked, a set  *)
(* of threads that each run digest calls.  One step of a call is one entry *)
(* into an update method.                                                  *)
(***************************************************************************)
EXTENDS Integers, Sequences, FiniteSets, TLC

(***************************************************************************)
(* Bounds of the model.                                                    *)
(***************************************************************************)
\* longest generated String (in chars) and longest generated Vec
MaxStrLen == 2
MaxVecLen == 2

(***************************************************************************)
(* Generic helpers.                                                        *)
(***************************************************************************)
RECURSIVE Flatten(_)
Flatten(ss) == IF ss = <<>> THEN <<>> ELSE Head(ss) \o Flatten(Tail(ss))

RECURSIVE SeqsUpTo(_, _)
SeqsUpTo(S, n) ==
    IF n = 0 THEN {<<>>}
    ELSE LET shorter == SeqsUpTo(S, n - 1)
         IN shorter \cup {Append(s, x) : s \in {t \in shorter : Len(t) = n - 1}, x \in S}

(***************************************************************************)
(* sha2::Sha256, the library the adapter wraps (FIPS 180-4).  A 32-bit     *)
(* word is a pair <<high half, low half>> of 16-bit numbers.  The hasher's *)
(* state is modelled by the bytes it has absorbed; finalize pads them and  *)
(* runs the compression function over the blocks.                          *)
(***************************************************************************)
Pow2 == <<2, 4, 8, 16, 32, 64, 128, 256, 512, 1024, 2048, 4096, 8192, 16384, 32768, 65536>>
P2(n) == IF n = 0 THEN 1 ELSE Pow2[n]

RECURSIVE XorBits(_, _, _)
XorBits(a, b, n) == IF n = 0 THEN 0 ELSE ((a + b) % 2) + 2 * XorBits(a \div 2, b \div 2, n - 1)
RECURSIVE AndBits(_, _, _)
AndBits(a, b, n) == IF n = 0 THEN 0 ELSE ((a % 2) * (b % 2)) + 2 * AndBits(a \div 2, b \div 2, n - 1)
XorByte == [a \in 0..255 |-> [b \in 0..255 |-> XorBits(a, b, 8)]]
AndByte == [a \in 0..255 |-> [b \in 0..255 |-> AndBits(a, b, 8)]]
Xor16(x, y) == XorByte[x % 256][y % 256] + 256 * XorByte[x \div 256][y \div 256]
And16(x, y) == AndByte[x % 256][y % 256] + 256 * AndByte[x \div 256][y \div 256]

Xor32(a, b) == <<Xor16(a[1], b[1]), Xor16(a[2], b[2])>>
And32(a, b) == <<And16(a[1], b[1]), And16(a[2], b[2])>>
Add32(a, b) == LET lo == a[2] + b[2] IN <<(a[1] + b[1] + (lo \div 65536)) % 65536, lo % 65536>>
Rotr32(a, n) == LET w == IF n >= 16 THEN <<a[2], a[1]>> ELSE a
                    m == n % 16
                IN IF m = 0 THEN w
                   ELSE <<(w[1] \div P2(m)) + (w[2] % P2(m)) * P2(16 - m),
                          (w[2] \div P2(m)) + (w[1] % P2(m)) * P2(16 - m)>>
Shr32(a, n) == <<a[1] \div P2(n), (a[2] \div P2(n)) + (a[1] % P2(n)) * P2(16 - n)>>

ShaK ==
    << <<17034, 12184>>, <<28983, 17553>>, <<46528, 64463>>, <<59829, 56229>>,
       <<14678, 49755>>, <<23025, 4593>>, <<37439, 33444>>, <<43804, 24277>>,
       <<55303, 43672>>, <<4739, 23297>>, <<9265, 34238>>, <<21772, 32195>>,
       <<29374, 23924>>, <<32990, 45566>>, <<39900, 1703>>, <<49563, 61812>>,
       <<58523, 27073>>, <<61374, 18310>>, <<4033, 40390>>, <<9228, 41420>>,
       <<11753, 11375>>, <<19060, 33962>>, <<23728, 43484>>, <<30457, 35034>>,
       <<38974, 20818>>, <<43057, 50797>>, <<45059, 10184>>, <<48985, 32711>>,
       <<50912, 3059>>, <<54695, 37191>>, <<1738, 25425>>, <<5161, 10599>>,
       <<10167, 2693>>, <<11803, 8504>>, <<19756, 28156>>, <<21304, 3347>>,
       <<25866, 29524>>, <<30314, 2747>>, <<33218, 51502>>, <<37490, 11397>>,
       <<41663, 59553>>, <<43034, 26187>>, <<49739, 35696>>, <<51052, 20899>>,
       <<53650, 59417>>, <<54937, 1572>>, <<62478, 13701>>, <<4202, 41072>>,
       <<6564, 49430>>, <<7735, 27656>>, <<10056, 30540>>, <<13488, 48309>>,
       <<14620, 3251>>, <<20184, 43594>>, <<23452, 51791>>, <<26670, 28659>>,
       <<29839, 33518>>, <<30885, 25455>>, <<33992, 30740>>, <<36039, 520>>,
       <<37054, 65530>>, <<42064, 27883>>, <<48889, 41975>>, <<50801, 30962>> >>
ShaH0 ==
    << <<27145, 58983>>, <<47975, 44677>>, <<15470, 62322>>, <<42319, 62778>>,
       <<20750, 21119>>, <<39685, 26764>>, <<8067, 55723>>, <<23520, 52505>> >>

SmallSigma0(x) == Xor32(Xor32(Rotr32(x, 7), Rotr32(x, 18)), Shr32(x, 3))
SmallSigma1(x) == Xor32(Xor32(Rotr32(x, 17), Rotr32(x, 19)), Shr32(x, 10))
BigSigma0(x) == Xor32(Xor32(Rotr32(x, 2), Rotr32(x, 13)), Rotr32(x, 22))
BigSigma1(x) == Xor32(Xor32(Rotr32(x, 6), Rotr32(x, 11)), Rotr32(x, 25))
ShaCh(x, y, z) == Xor32(z, And32(x, Xor32(y, z)))
ShaMaj(x, y, z) == Xor32(And32(x, y), And32(z, Xor32(x, y)))

\* the message, 0x80, zeros up to 56 mod 64, then the bit length in 64 bits,
\* big-endian (the model's messages stay below 8192 bytes)
ShaPad(msg) ==
    LET n == Len(msg)
        z == (119 - (n % 64)) % 64
        bits == 8 * n
    IN msg \o <<128>> \o [i \in 1..z |-> 0]
           \o <<0, 0, 0, 0, 0, 0, (bits \div 256) % 256, bits % 256>>

RECURSIVE ShaSchedule(_)
ShaSchedule(w) ==
    IF Len(w) = 64 THEN w
    ELSE LET t == Len(w) + 1
         IN ShaSchedule(Append(w, Add32(Add32(SmallSigma1(w[t - 2]), w[t - 7]),
                                         Add32(SmallSigma0(w[t - 15]), w[t - 16]))))

\* (the test of Len(s) makes TLC evaluate each round's state before the next)
RECURSIVE ShaRounds(_, _, _)
ShaRounds(s, w, t) ==
    IF Len(s) # 8 \/ t > 64 THEN s
    ELSE LET t1 == Add32(Add32(Add32(s[8], BigSigma1(s[5])),
                               Add32(ShaCh(s[5], s[6], s[7]), ShaK[t])), w[t])
             t2 == Add32(BigSigma0(s[1]), ShaMaj(s[1], s[2], s[3]))
         IN ShaRounds(<<Add32(t1, t2), s[1], s[2], s[3], Add32(s[4], t1), s[5], s[6], s[7]>>,
                      w, t + 1)

ShaCompress(h, block) ==
    LET w16 == [i \in 1..16 |-> <<256 * block[4 * i - 3] + block[4 * i - 2],
                                  256 * block[4 * i - 1] + block[4 * i]>>]
        s == ShaRounds(h, ShaSchedule(w16), 1)
    IN [i \in 1..8 |-> Add32(h[i], s[i])]

RECURSIVE ShaBlocks(_, _)
ShaBlocks(h, padded) ==
    IF padded = <<>> THEN h
    ELSE ShaBlocks(ShaCompress(h, SubSeq(padded, 1, 64)), SubSeq(padded, 65, Len(padded)))

\* Digest::finalize: the 32 bytes of the eight state words, big-endian
Sha256Finalize(absorbed) ==
    LET h == ShaBlocks(ShaH0, ShaPad(absorbed))
    IN [i \in 1..32 |-> LET wd == h[((i - 1) \div 4) + 1]
                            half == wd[(((i - 1) % 4) \div 2) + 1]
                        IN IF i % 2 = 1 THEN half \div 256 ELSE half % 256]

\* Sha256::new(): nothing absorbed
Sha256New == <<>>

\* Digest::update(self, data): the hasher absorbs data after what it holds
Sha256Absorb(absorbed, data) == absorbed \o data

(***************************************************************************)
(* Rust values.  A value is a record [ty, v]: ty names its Rust type and v *)
(* is its content.  An integer is kept as sign and magnitude, the          *)
(* magnitude in four 16-bit limbs, least significant first (TLC's own      *)
(* integers are too narrow for u32, i64 and u64).  A String is its text, a *)
(* sequence of Unicode scalar values; a Vec is the sequence of its         *)
(* elements; a struct maps each field's name to the field's value.         *)
(***************************************************************************)
UnsignedTypes == {"u8", "u16", "u32", "u64"}
SignedTypes == {"i8", "i16", "i32", "i64"}
IntTypes == UnsignedTypes \cup SignedTypes
VecTypes == {"Vec<u8>", "Vec<i16>", "Vec<u32>", "Vec<bool>", "Vec<String>", "Vec<Vec<u8>>"}

\* the width of an integer type in bits
Bits(ty) ==
    CASE ty \in {"u8", "i8"} -> 8
      [] ty \in {"u16", "i16"} -> 16
      [] ty \in {"u32", "i32"} -> 32
      [] ty \in {"u64", "i64"} -> 64

\* std::mem::size_of::<ty>()
SizeOf(ty) == Bits(ty) \div 8

Abs(n) == IF n < 0 THEN 0 - n ELSE n
IntV(ty, neg, mag) == [ty |-> ty, v |-> [neg |-> neg, mag |-> mag]]
\* an integer of small absolute value
Small(ty, n) == IntV(ty, n < 0, <<Abs(n) % 65536, Abs(n) \div 65536, 0, 0>>)
\* the limbs of 2^k - 1 and of 2^k
AllOnes(k) ==
    [j \in 1..4 |-> IF 16 * j <= k THEN 65535
                    ELSE IF 16 * (j - 1) < k THEN P2(k - 16 * (j - 1)) - 1 ELSE 0]
OneBit(k) ==
    [j \in 1..4 |-> IF 16 * (j - 1) <= k /\ k < 16 * j THEN P2(k - 16 * (j - 1)) ELSE 0]
\* <ty>::MAX and <ty>::MIN
MaxOf(ty) == IntV(ty, FALSE, AllOnes(IF ty \in SignedTypes THEN Bits(ty) - 1 ELSE Bits(ty)))
MinOf(ty) == IF ty \in SignedTypes THEN IntV(ty, TRUE, OneBit(Bits(ty) - 1)) ELSE Small(ty, 0)

BoolV(b) == [ty |-> "bool", v |-> b]
StringV(text) == [ty |-> "String", v |-> text]
VecV(ty, elems) == [ty |-> ty, v |-> elems]
StructV(ty, fields) == [ty |-> ty, v |-> fields]

Kind(x) ==
    CASE x.ty \in IntTypes -> "int"
      [] x.ty = "bool" -> "bool"
      [] x.ty = "String" -> "string"
      [] x.ty \in VecTypes -> "vec"
      [] OTHER -> "struct"

(***************************************************************************)
(* byteorder's WriteBytesExt on a mutable byte slice, and the casts.       *)
(***************************************************************************)
\* the low n bytes of a magnitude, least significant first
MagBytes(mag, n) ==
    [i \in 1..n |-> LET limb == mag[(i + 1) \div 2]
                    IN IF i % 2 = 1 THEN limb % 256 ELSE limb \div 256]

\* two's complement negation of a little-endian byte string: invert, add one
RECURSIVE NegateFrom(_, _, _)
NegateFrom(bytes, i, carry) ==
    IF i > Len(bytes) THEN <<>>
    ELSE LET t == (255 - bytes[i]) + carry
         IN <<t % 256>> \o NegateFrom(bytes, i + 1, t \div 256)
Negate(bytes) == NegateFrom(bytes, 1, 1)

\* the bit pattern of integer x in n bytes (what `x as uN` keeps), as the
\* little-endian byte string  x.to_le_bytes()
ToLeBytes(x, n) == IF x.neg THEN Negate(MagBytes(x.mag, n)) ELSE MagBytes(x.mag, n)

\* `*self as u8` for a bool
BoolAsU8(b) == [neg |-> FALSE, mag |-> <<IF b THEN 1 ELSE 0, 0, 0, 0>>]

\* a variant that writes the most significant byte first
write_be(x, ty) ==
    LET le == ToLeBytes(x, SizeOf(ty)) IN [i \in 1..Len(le) |-> le[Len(le) + 1 - i]]

\* write_u8 / write_i8: one byte;  write_<t>::<LittleEndian>: size_of::<t>() bytes
write_u8(x) == ToLeBytes(x, 1)
write_i8(x) == ToLeBytes(x, 1)
write_le(x, ty) == ToLeBytes(x, SizeOf(ty))

\* Write for &mut [u8]: the bytes go to the front of the slice; an error
\* (WriteZero) when the slice is too short, which unwrap() turns into a panic
WriteAll(buf, bytes) ==
    IF Len(bytes) > Len(buf) THEN [ok |-> FALSE, buf |-> buf]
    ELSE [ok |-> TRUE,
          buf |-> [i \in 1..Len(buf) |-> IF i <= Len(bytes) THEN bytes[i] ELSE buf[i]]]

\* [0u8; n]
Zeroed(n) == [i \in 1..n |-> 0]

(***************************************************************************)
(* impl Hashable for u8, bool, i8 and impl_hashable_for!(t): the buffer    *)
(* that update hands to h.update (ok is FALSE when unwrap() panics).       *)
(***************************************************************************)
U8Buf(x) == WriteAll(Zeroed(SizeOf("u8")), write_u8(x.v))
BoolBuf(x) == WriteAll(Zeroed(SizeOf("u8")), write_u8(BoolAsU8(x.v)))
I8Buf(x) == WriteAll(Zeroed(SizeOf("u8")), write_i8(x.v))
WideBuf(x) == WriteAll(Zeroed(SizeOf(x.ty)), write_le(x.v, x.ty))

PrimBuf(x) ==
    CASE x.ty = "u8" -> U8Buf(x)
      [] x.ty = "bool" -> BoolBuf(x)
      [] x.ty = "i8" -> I8Buf(x)
      [] OTHER -> WideBuf(x)

(***************************************************************************)
(* String::as_bytes: the UTF-8 encoding of the text.                       *)
(***************************************************************************)
Utf8Char(cp) ==
    IF cp < 128 THEN <<cp>>
    ELSE IF cp < 2048 THEN <<192 + (cp \div 64), 128 + (cp % 64)>>
    ELSE IF cp < 65536 THEN <<224 + (cp \div 4096), 128 + ((cp \div 64) % 64), 128 + (cp % 64)>>
    ELSE <<240 + (cp \div 262144), 128 + ((cp \div 4096) % 64),
           128 + ((cp \div 64) % 64), 128 + (cp % 64)>>

as_bytes(text) == Flatten([i \in 1..Len(text) |-> Utf8Char(text[i])])

(***************************************************************************)
(* The derive macro.  A derive input (syn::DeriveInput) is a record        *)
(*   [ident, data, style, list]                                            *)
(* data is "Struct", "Enum" or "Union"; for a struct, style is its         *)
(* syn::Fields variant, "Named", "Unnamed" or "Unit", and list its fields  *)
(* in declaration order, each [ident, ty] with ident an Option: <<>> is    *)
(* None and <<name>> is Some(name).  A union's fields are named.           *)
(***************************************************************************)
None == <<>>
Some(x) == <<x>>

Field(name, ty) == [ident |-> Some(name), ty |-> ty]
Positional(ty) == [ident |-> None, ty |-> ty]
DeriveInput(ident, data, style, list) ==
    [ident |-> ident, data |-> data, style |-> style, list |-> list]

\* usize::to_string
to_string(i) == ToString(i)

\* Ident::new(string, span) panics unless the string is an identifier or a
\* keyword; the strings it is given here are decimal numbers, which are not
IsIdentifier(string) == \A i \in 0..63 : string # ToString(i)
IdentNew(string) == IF IsIdentifier(string) THEN Some(string) ELSE None

\* lines 11-25: the match on ast.data
MatchFields(ast) ==
    IF ast.data = "Struct" /\ ast.style = "Named" THEN Some(ast.list)
    ELSE IF ast.data = "Struct" /\ ast.style = "Unnamed" THEN Some(ast.list)
    ELSE None

\* line 26: each field's own ident, or else an ident made of its index
\* (enumerate counts from zero)
FieldIdents(list) ==
    [i \in 1..Len(list) |->
        IF list[i].ident # None THEN list[i].ident ELSE IdentNew(to_string(i - 1))]

\* a variant that emits the statements last field first
FieldsCodeReversed(idents) == [i \in 1..Len(idents) |-> idents[Len(idents) + 1 - i][1]]

\* lines 30-34: one statement  self.#f.update(h);  per ident, in order
FieldsCode(idents) == [i \in 1..Len(idents) |-> idents[i][1]]

\* hashable_derive: the expansion of one item.  panic is "" when the macro
\* returns the impl, whose update runs fields_code in order.  The impl names
\* Hasher and simple_hash::Hashable as the derive site resolves them; both
\* are taken to be in scope there, as they are in mod tests.  The item's
\* generics are copied to the impl unchanged and play no part here.
hashable_derive(ast) ==
    LET fields == MatchFields(ast)
    IN IF fields = None
       THEN [name |-> ast.ident, panic |-> "Expected a struct", fields_code |-> <<>>]
       ELSE LET idents == FieldIdents(fields[1])
            IN IF \E i \in 1..Len(idents) : idents[i] = None
               THEN [name |-> ast.ident, panic |-> "not a valid identifier",
                     fields_code |-> <<>>]
               ELSE [name |-> ast.ident, panic |-> "", fields_code |-> FieldsCode(idents)]

(***************************************************************************)
(* The crates.  GoodCrate holds the record types the values below are of;  *)
(* every other crate holds one item of another shape.                      *)
(***************************************************************************)
Foo == DeriveInput("Foo", "Struct", "Named",
                   <<Field("a", "u8"), Field("b", "u16"), Field("c", "Vec<u32>")>>)
AB == DeriveInput("AB", "Struct", "Named", <<Field("a", "u8"), Field("b", "u16")>>)
BA == DeriveInput("BA", "Struct", "Named", <<Field("b", "u16"), Field("a", "u8")>>)
XY == DeriveInput("XY", "Struct", "Named", <<Field("x", "u16"), Field("y", "u16")>>)
YX == DeriveInput("YX", "Struct", "Named", <<Field("y", "u16"), Field("x", "u16")>>)
\* struct Braces {}   and   struct Parens();
Braces == DeriveInput("Braces", "Struct", "Named", <<>>)
Parens == DeriveInput("Parens", "Struct", "Unnamed", <<>>)
\* struct Marker;
Marker == DeriveInput("Marker", "Struct", "Unit", <<>>)
\* struct Wrapper(u8);   and   struct Point(u8, u16);
Wrapper == DeriveInput("Wrapper", "Struct", "Unnamed", <<Positional("u8")>>)
Point == DeriveInput("Point", "Struct", "Unnamed", <<Positional("u8"), Positional("u16")>>)
\* enum Choice { .. }   and   union Bits32 { word: u32, half: u16 }
Choice == DeriveInput("Choice", "Enum", "Variants", <<>>)
Bits32 == DeriveInput("Bits32", "Union", "Named", <<Field("word", "u32"), Field("half", "u16")>>)

GoodCrate == <<Braces, Parens, Foo, AB, BA, XY, YX>>
Crates == {GoodCrate, <<Marker>>, <<Wrapper>>, <<Point>>, <<Choice>>, <<Bits32>>,
           <<Foo, Point, AB>>}

(***************************************************************************)
(* The values the model hashes.                                            *)
(***************************************************************************)
\* 0, MIN, MAX and -1 of every integer type, and the sources' own examples
IntValues ==
    UNION {{Small(ty, 0), MinOf(ty), MaxOf(ty)} : ty \in IntTypes}
    \cup {Small(ty, 0 - 1) : ty \in SignedTypes}
    \cup {Small("u8", 1), Small("u8", 8), Small("u8", 9), Small("u16", 99), Small("u16", 513),
          Small("i16", 0 - 2), Small("u32", 1), Small("i32", 0 - 2), Small("i64", 0 - 2)}
BoolValues == {BoolV(FALSE), BoolV(TRUE)}

\* a, e-acute, the euro sign, an emoji: one char of each UTF-8 length
Chars == {97, 233, 8364, 128512}
StringValues == {StringV(t) : t \in SeqsUpTo(Chars, MaxStrLen)}

\* "a", "b", "c", "ab", "bc"
ElemStrings == {StringV(<<97>>), StringV(<<98>>), StringV(<<99>>),
                StringV(<<97, 98>>), StringV(<<98, 99>>)}
VecsOf(ty, elems) == {VecV(ty, s) : s \in SeqsUpTo(elems, MaxVecLen)}
U32Test == VecV("Vec<u32>", <<Small("u32", 0), Small("u32", 1), Small("u32", 2), Small("u32", 3)>>)
VecValues ==
    VecsOf("Vec<u8>", {Small("u8", 1), Small("u8", 2)})
    \cup VecsOf("Vec<i16>", {Small("i16", 0 - 1), Small("i16", 256)})
    \cup VecsOf("Vec<u32>", {Small("u32", 0), MaxOf("u32")})
    \cup VecsOf("Vec<bool>", BoolValues)
    \cup VecsOf("Vec<String>", ElemStrings)
    \cup VecsOf("Vec<Vec<u8>>", {VecV("Vec<u8>", <<>>), VecV("Vec<u8>", <<Small("u8", 1)>>),
                                 VecV("Vec<u8>", <<Small("u8", 1), Small("u8", 1)>>)})
    \cup {U32Test}

\* the value of the crate's doc example and of tests::test_derive
TestFoo == StructV("Foo", [a |-> Small("u8", 8), b |-> Small("u16", 99), c |-> U32Test])
FooValues ==
    {StructV("Foo", [a |-> a, b |-> b, c |-> c]) :
        a \in {Small("u8", 8), MaxOf("u8")}, b \in {Small("u16", 99), MaxOf("u16")},
        c \in {VecV("Vec<u32>", <<>>), VecV("Vec<u32>", <<MaxOf("u32")>>), U32Test}}
\* a record of two fields and the record that declares them the other way round
PairValues(ty, f, g, xs, ys) == {StructV(ty, (f :> x) @@ (g :> y)) : x \in xs, y \in ys}
U8Samples == {Small("u8", 1), Small("u8", 2)}
U16Samples == {Small("u16", 1), Small("u16", 257), MaxOf("u16")}
StructValues ==
    FooValues
    \cup PairValues("AB", "a", "b", U8Samples, U16Samples)
    \cup PairValues("BA", "a", "b", U8Samples, U16Samples)
    \cup PairValues("XY", "x", "y", U16Samples, U16Samples)
    \cup PairValues("YX", "x", "y", U16Samples, U16Samples)
    \cup {StructV("Braces", <<>>), StructV("Parens", <<>>)}

Values == IntValues \cup BoolValues \cup StringValues \cup VecValues \cup StructValues

\* the same field values under the declaration with the two fields swapped
Swapped(x) ==
    StructV(CASE x.ty = "AB" -> "BA" [] x.ty = "BA" -> "AB"
              [] x.ty = "XY" -> "YX" [] x.ty = "YX" -> "XY", x.v)

\* pairs of values for two threads: the same value twice, records and their
\* swapped declarations, Vecs of Strings over the same text, the same bytes
\* in one chunk and in two, unrelated values
VecStr(texts) == VecV("Vec<String>", [i \in 1..Len(texts) |-> StringV(texts[i])])
PairPlans ==
    {<<x, x>> : x \in {Small("u8", 9), MinOf("i64"), StringV(<<97, 8364>>), TestFoo,
                       StructV("Braces", <<>>), VecStr(<<<<97, 98>>, <<99>>>>)}}
    \cup {<<x, Swapped(x)>> : x \in PairValues("AB", "a", "b", U8Samples, U16Samples)
                                    \cup PairValues("XY", "x", "y", U16Samples, U16Samples)}
    \cup {<<VecStr(<<<<97, 98>>, <<99>>>>), VecStr(<<<<97>>, <<98, 99>>>>)>>,
          <<VecStr(<<<<97>>, <<98>>>>), VecStr(<<<<97, 98>>>>)>>,
          <<VecStr(<<<<97, 98>>, <<99>>>>), VecStr(<<<<97>>, <<98>>>>)>>,
          <<VecV("Vec<u8>", <<Small("u8", 1), Small("u8", 2)>>), Small("u16", 513)>>,
          <<Small("u8", 9), TestFoo>>,
          <<StringV(<<233>>), MaxOf("u64")>>}

(***************************************************************************)
(* The state.                                                              *)
(*   crate       the items to expand, in order                             *)
(*   expansions  what hashable_derive returned for the items expanded so   *)
(*               far                                                       *)
(*   plan        <<>> when the program's one thread hashes any value;      *)
(*               else, for each of two threads, the value it hashes        *)
(*   calls       for each thread, its digest call:                         *)
(*     pc    "idle", "update" (inside data.update(&mut sha)), "done"       *)
(*           (finish has returned) or "panicked"                           *)
(*     data  the value being hashed                                        *)
(*     todo  the values whose update is still to run, next first           *)
(*     sha   the bytes the call's Sha256 has absorbed                      *)
(*     fed   the chunks handed to Hasher::update so far, in call order     *)
(*     out   the Output finish returned                                    *)
(***************************************************************************)
VARIABLES crate, expansions, plan, calls

vars == <<crate, expansions, plan, calls>>

NoData == [ty |-> "none", v |-> <<>>]
IdleCall == [pc |-> "idle", data |-> NoData, todo |-> <<>>, sha |-> <<>>, fed |-> <<>>,
             out |-> <<>>]

Threads == DOMAIN calls

\* the values thread c may hash
Inputs(c) == IF plan = <<>> THEN Values ELSE {plan[c]}

\* the build succeeded: every item is expanded and no expansion panicked
Panicked == \E i \in 1..Len(expansions) : expansions[i].panic # ""
BuildOk == Len(expansions) = Len(crate) /\ ~Panicked

HasImpl(ty) == \E i \in 1..Len(expansions) : expansions[i].name = ty /\ expansions[i].panic = ""
ImplOf(ty) == expansions[CHOOSE i \in 1..Len(expansions) : expansions[i].name = ty]

(***************************************************************************)
(* impl Hasher for Sha256.                                                 *)
(***************************************************************************)
\* a variant that frames each chunk with its length
HasherUpdateFramed(sha, data) == Sha256Absorb(Sha256Absorb(sha, <<Len(data)>>), data)

\* update: Digest::update(self, data)
HasherUpdate(sha, data) == Sha256Absorb(sha, data)

\* finish: res = self.finalize(); out = [0; 32]; out[i] = res[i] for i in 0..res.len()
HasherFinish(sha) ==
    LET res == Sha256Finalize(sha)
    IN [i \in 1..32 |-> IF i <= Len(res) THEN res[i] ELSE 0]

\* a variant that starts from the accumulator another running call holds
HasherDigestShared(data) ==
    LET busy == {d \in DOMAIN calls : calls[d].pc # "idle"}
    IN [pc |-> "update", data |-> data, todo |-> <<data>>,
        sha |-> IF busy = {} THEN Sha256New ELSE calls[CHOOSE d \in busy : TRUE].sha,
        fed |-> <<>>, out |-> <<>>]

\* digest, up to the call of data.update: a new Sha256, and data to encode
HasherDigest(data) ==
    [pc |-> "update", data |-> data, todo |-> <<data>>, sha |-> Sha256New, fed |-> <<>>,
     out |-> <<>>]

\* a variant that encodes the value twice
HashableDigestTwice(data) == [HasherDigest(data) EXCEPT !.todo = <<data, data>>]

\* Hashable::digest: H::digest(self)
HashableDigest(data) == HasherDigest(data)

(***************************************************************************)
(* The update methods.  Each takes the call whose next value is of its     *)
(* type and returns the call after the method's own statements; the        *)
(* updates it calls on elements, bytes or fields are put first in todo.    *)
(***************************************************************************)
\* impl Hashable for u8 / bool / i8 / impl_hashable_for!: h.update(buf.as_slice())
PrimUpdate(call) ==
    LET r == PrimBuf(Head(call.todo))
    IN IF r.ok
       THEN [call EXCEPT !.sha = HasherUpdate(@, r.buf), !.fed = Append(@, r.buf),
                         !.todo = Tail(@)]
       ELSE [call EXCEPT !.pc = "panicked"]

\* a variant that encodes the length before the elements
VecElementsWithLen(x) == <<Small("u8", Len(x.v))>> \o x.v

\* impl Hashable for Vec<T>: for t in self { t.update(h) }
VecElements(x) == x.v
VecUpdate(call) == [call EXCEPT !.todo = VecElements(Head(call.todo)) \o Tail(@)]

\* a variant that ends each text with a zero byte
StringBytesTerminated(x) ==
    LET bytes == as_bytes(x.v) \o <<0>> IN [i \in 1..Len(bytes) |-> Small("u8", bytes[i])]

\* impl Hashable for String: for t in self.as_bytes() { t.update(h) }, t a &u8
StringBytes(x) == LET bytes == as_bytes(x.v) IN [i \in 1..Len(bytes) |-> Small("u8", bytes[i])]
StringUpdate(call) == [call EXCEPT !.todo = StringBytes(Head(call.todo)) \o Tail(@)]

\* a variant that visits the fields by name, in alphabetical order
StructFieldsByName(x, impl) ==
    LET names == SelectSeq(<<"a", "b", "c", "x", "y">>, LAMBDA f : f \in DOMAIN x.v)
    IN [i \in 1..Len(names) |-> x.v[names[i]]]

\* the derived impl: self.#f.update(h); for each f of fields_code
StructFields(x, impl) == [i \in 1..Len(impl.fields_code) |-> x.v[impl.fields_code[i]]]
StructUpdate(call, impl) == [call EXCEPT !.todo = StructFields(Head(call.todo), impl) \o Tail(@)]

\* one update method, by the type of the next value
UpdateStep(call) ==
    LET x == Head(call.todo)
    IN CASE Kind(x) \in {"int", "bool"} -> PrimUpdate(call)
         [] Kind(x) = "vec" -> VecUpdate(call)
         [] Kind(x) = "string" -> StringUpdate(call)
         [] Kind(x) = "struct" -> StructUpdate(call, ImplOf(x.ty))

\* Hashable::update run to its return on a call of its own
RECURSIVE RunUpdate(_)
RunUpdate(call) ==
    IF call.pc # "update" \/ call.todo = <<>> THEN call ELSE RunUpdate(UpdateStep(call))

\* the bytes x.update(h) appends when it runs alone on an empty accumulator
Encoding(x) ==
    RunUpdate([pc |-> "update", data |-> x, todo |-> <<x>>, sha |-> <<>>, fed |-> <<>>,
               out |-> <<>>]).sha

(***************************************************************************)
(* The actions.                                                            *)
(***************************************************************************)
\* the compiler expands the next item's derive; a panic ends the build
Derive ==
    /\ Len(expansions) < Len(crate)
    /\ ~Panicked
    /\ expansions' = Append(expansions, hashable_derive(crate[Len(expansions) + 1]))
    /\ UNCHANGED <<crate, plan, calls>>

\* thread c asks for the digest of x, through the value (x.digest::<Sha256>())
\* or through the engine (Sha256::digest(&x))
Digest(c, x) ==
    /\ BuildOk
    /\ calls[c].pc = "idle"
    /\ Kind(x) = "struct" => HasImpl(x.ty)
    /\ \E entry \in {"Hashable", "Hasher"} :
          calls' = [calls EXCEPT ![c] = IF entry = "Hashable" THEN HashableDigest(x)
                                        ELSE HasherDigest(x)]
    /\ UNCHANGED <<crate, expansions, plan>>

Updating(c, kinds) ==
    /\ calls[c].pc = "update"
    /\ calls[c].todo # <<>>
    /\ Kind(Head(calls[c].todo)) \in kinds

UpdatePrim(c) ==
    /\ Updating(c, {"int", "bool"})
    /\ calls' = [calls EXCEPT ![c] = PrimUpdate(@)]
    /\ UNCHANGED <<crate, expansions, plan>>

UpdateVec(c) ==
    /\ Updating(c, {"vec"})
    /\ calls' = [calls EXCEPT ![c] = VecUpdate(@)]
    /\ UNCHANGED <<crate, expansions, plan>>

UpdateString(c) ==
    /\ Updating(c, {"string"})
    /\ calls' = [calls EXCEPT ![c] = StringUpdate(@)]
    /\ UNCHANGED <<crate, expansions, plan>>

UpdateStruct(c) ==
    /\ Updating(c, {"struct"})
    /\ calls' = [calls EXCEPT ![c] = StructUpdate(@, ImplOf(Head(@.todo).ty))]
    /\ UNCHANGED <<crate, expansions, plan>>

\* data.update(&mut sha) has returned: sha.finish()
Finish(c) ==
    /\ calls[c].pc = "update"
    /\ calls[c].todo = <<>>
    /\ calls' = [calls EXCEPT ![c].out = HasherFinish(calls[c].sha), ![c].pc = "done"]
    /\ UNCHANGED <<crate, expansions, plan>>

\* the caller has the Output; the thread is free for its next call
Return(c) ==
    /\ calls[c].pc = "done"
    /\ calls' = [calls EXCEPT ![c] = IdleCall]
    /\ UNCHANGED <<crate, expansions, plan>>

Next ==
    \/ Derive
    \/ \E c \in Threads : \E x \in Inputs(c) : Digest(c, x)
    \/ \E c \in Threads : UpdatePrim(c)
    \/ \E c \in Threads : UpdateVec(c)
    \/ \E c \in Threads : UpdateString(c)
    \/ \E c \in Threads : UpdateStruct(c)
    \/ \E c \in Threads : Finish(c)
    \/ \E c \in Threads : Return(c)

\* one thread, any crate, any value
Init ==
    /\ crate \in Crates
    /\ expansions = <<>>
    /\ plan = <<>>
    /\ calls = [c \in {1} |-> IdleCall]

Spec == Init /\ [][Next]_vars

\* two threads, each with the value of its side of a pair
InitPair ==
    /\ crate = GoodCrate
    /\ expansions = <<>>
    /\ plan \in PairPlans
    /\ calls = [c \in {1, 2} |-> IdleCall]

SpecPair == InitPair /\ [][Next]_vars

(***************************************************************************)
(* Definitions the properties are stated with.  They say what the bytes    *)
(* should be without going through the encoders above.                     *)
(***************************************************************************)
\* update has returned (finish may have run as well)
Encoded(call) == call.pc = "done" \/ (call.pc = "update" /\ call.todo = <<>>)

SameValue(x, y) == x.ty = y.ty /\ x.v = y.v

\* the fields of the item named ty, as the crate declares them
Declared(ty) == crate[CHOOSE i \in 1..Len(crate) : crate[i].ident = ty]

\* the number whose little-endian bytes are given, in 16-bit limbs
LimbsOf(bytes) ==
    [j \in 1..4 |-> (IF 2 * j - 1 <= Len(bytes) THEN bytes[2 * j - 1] ELSE 0)
                    + 256 * (IF 2 * j <= Len(bytes) THEN bytes[2 * j] ELSE 0)]
\* a + b, in five limbs
SumLimbs(a, b) ==
    LET s1 == a[1] + b[1]
        s2 == a[2] + b[2] + (s1 \div 65536)
        s3 == a[3] + b[3] + (s2 \div 65536)
        s4 == a[4] + b[4] + (s3 \div 65536)
    IN <<s1 % 65536, s2 % 65536, s3 % 65536, s4 % 65536, s4 \div 65536>>
\* 2^bits, in five limbs
TwoTo(bits) == [j \in 1..5 |-> IF j = (bits \div 16) + 1 THEN P2(bits % 16) ELSE 0]

\* bytes is the little-endian two's-complement representation of x in the
\* given width: the bytes read as a number are x, or x + 2^bits when x < 0
Represents(bytes, x, bits) ==
    /\ Len(bytes) = bits \div 8
    /\ \A i \in 1..Len(bytes) : bytes[i] \in 0..255
    /\ IF x.neg THEN SumLimbs(LimbsOf(bytes), x.mag) = TwoTo(bits)
       ELSE LimbsOf(bytes) = x.mag

\* the text a UTF-8 byte string stands for (<<-1>> where it is cut short)
RECURSIVE Utf8Decode(_)
Utf8Decode(b) ==
    IF b = <<>> THEN <<>>
    ELSE LET h == b[1]
             n == IF h < 128 THEN 1 ELSE IF h < 224 THEN 2 ELSE IF h < 240 THEN 3 ELSE 4
         IN IF n > Len(b) THEN <<0 - 1>>
            ELSE LET cp == CASE n = 1 -> h
                             [] n = 2 -> (h - 192) * 64 + (b[2] - 128)
                             [] n = 3 -> (h - 224) * 4096 + (b[2] - 128) * 64 + (b[3] - 128)
                             [] n = 4 -> (h - 240) * 262144 + (b[2] - 128) * 4096
                                         + (b[3] - 128) * 64 + (b[4] - 128)
                 IN <<cp>> \o Utf8Decode(SubSeq(b, n + 1, Len(b)))

\* the digests the crate's tests expect (test_derive, test_u8) and the
\* SHA-256 of the empty string (FIPS 180-4)
TestDeriveDigest ==
    <<146, 152, 99, 206, 88, 137, 81, 234, 224, 204, 136, 117, 82, 22, 249, 105,
      81, 212, 49, 231, 209, 90, 219, 184, 54, 216, 241, 150, 11, 182, 90, 157>>
TestU8Digest ==
    <<43, 76, 52, 47, 84, 51, 235, 229, 145, 161, 218, 119, 224, 19, 209, 183,
      36, 117, 86, 45, 72, 87, 141, 202, 139, 132, 186, 198, 101, 28, 60, 185>>
EmptyDigest ==
    <<227, 176, 196, 66, 152, 252, 28, 20, 154, 251, 244, 200, 153, 111, 185, 36,
      39, 174, 65, 228, 100, 155, 147, 76, 164, 149, 153, 27, 120, 82, 184, 85>>

(***************************************************************************)
(* The properties.                                                         *)
(***************************************************************************)

\* C1: once update has returned on a record with named fields, the
\* accumulator holds exactly the fields' own encodings, concatenated in the
\* order the type declares them; for Foo { a: 8, b: 99, c: [0, 1, 2, 3] } these
\* are the 19 bytes 08 | 63 00 | 00 00 00 00 | 01 00 00 00 | 02 00 00 00 |
\* 03 00 00 00, whose digest is the one tests::test_derive expects.
C1_NamedRecordFieldOrder ==
    \A c \in Threads :
        LET call == calls[c]
            decl == Declared(call.data.ty)
        IN (Encoded(call) /\ Kind(call.data) = "struct" /\ decl.style = "Named") =>
              /\ call.sha = Flatten([i \in 1..Len(decl.list) |->
                                        Encoding(call.data.v[decl.list[i].ident[1]])])
              /\ SameValue(call.data, TestFoo) =>
                    /\ call.sha = <<8, 99, 0, 0, 0, 0, 0, 1, 0, 0, 0, 2, 0, 0, 0, 3, 0, 0, 0>>
                    /\ call.pc = "done" => call.out = TestDeriveDigest

C1_Witness ==
    \E c \in Threads :
        calls[c].pc = "done" /\ SameValue(calls[c].data, TestFoo) /\ Len(calls[c].sha) = 19

\* C2: two calls on the same value that are at the same point of the
\* traversal have absorbed the same bytes in the same chunks, whichever entry
\* point (Hashable::digest or Hasher::digest) started them, and once both
\* have finished their outputs are equal.
C2_EncodingDeterminism ==
    \A c, d \in Threads :
        (/\ calls[c].pc # "idle" /\ calls[d].pc # "idle"
         /\ SameValue(calls[c].data, calls[d].data)
         /\ calls[c].todo = calls[d].todo) =>
              /\ calls[c].sha = calls[d].sha
              /\ calls[c].fed = calls[d].fed
              /\ (calls[c].pc = "done" /\ calls[d].pc = "done") => calls[c].out = calls[d].out

C2_Witness ==
    /\ Cardinality(Threads) = 2
    /\ \A c \in Threads : calls[c].pc = "done" /\ SameValue(calls[c].data, TestFoo)
    /\ calls[1].out = calls[2].out

\* C3: update on a fixed-width primitive hands the hasher one chunk of
\* exactly the type's width: for a bool the byte 0 or 1, for an integer of 8,
\* 16, 32 or 64 bits the little-endian two's-complement representation of its
\* value (0, -1, MIN and MAX of every type are among the values).
C3_PrimitiveWidthAndEndianness ==
    \A c \in Threads :
        LET call == calls[c]
            x == call.data
        IN (Encoded(call) /\ Kind(x) \in {"int", "bool"}) =>
              /\ call.fed = <<call.sha>>
              /\ Kind(x) = "bool" => call.sha = <<IF x.v THEN 1 ELSE 0>>
              /\ Kind(x) = "int" => Represents(call.sha, x.v, Bits(x.ty))
              /\ SameValue(x, MinOf("i64")) => call.sha = <<0, 0, 0, 0, 0, 0, 0, 128>>
              /\ SameValue(x, Small("u16", 99)) => call.sha = <<99, 0>>
              /\ SameValue(x, Small("i32", 0 - 2)) => call.sha = <<254, 255, 255, 255>>

C3_Witness ==
    \E c \in Threads :
        /\ calls[c].pc = "done"
        /\ SameValue(calls[c].data, MinOf("i64"))
        /\ calls[c].sha = <<0, 0, 0, 0, 0, 0, 0, 128>>

\* C4: once update has returned on a Vec, the accumulator holds the
\* elements' own encodings concatenated in index order; on a String, bytes
\* that decode as UTF-8 to exactly its text; nothing is added, so an empty
\* Vec or String leaves the accumulator empty and no chunk is handed over.
C4_SequenceConcatenation ==
    \A c \in Threads :
        LET call == calls[c]
            x == call.data
        IN Encoded(call) =>
              /\ Kind(x) = "vec" =>
                    call.sha = Flatten([i \in 1..Len(x.v) |-> Encoding(x.v[i])])
              /\ Kind(x) = "string" =>
                    /\ Utf8Decode(call.sha) = x.v
                    /\ Len(call.fed) = Len(call.sha)
              /\ (Kind(x) \in {"vec", "string"} /\ x.v = <<>>) =>
                    call.sha = <<>> /\ call.fed = <<>>

C4_Witness ==
    \E c \in Threads :
        /\ calls[c].pc = "done"
        /\ SameValue(calls[c].data, VecV("Vec<i16>", <<Small("i16", 0 - 1), Small("i16", 256)>>))
        /\ calls[c].sha = <<255, 255, 0, 1>>

\* C5: at every point of a call the accumulator holds exactly the chunks
\* handed to Hasher::update so far, concatenated in call order (nothing when
\* there were none), and finish returns the 32-byte SHA-256 digest of that
\* byte string, which depends on the concatenation only and not on how it was
\* cut into chunks.
C5_AccumulatorIsConcatenation ==
    \A c \in Threads :
        LET call == calls[c]
        IN call.pc # "idle" =>
              /\ call.sha = Flatten(call.fed)
              /\ call.pc = "done" =>
                    /\ Len(call.out) = 32
                    /\ call.out = Sha256Finalize(Flatten(call.fed))
                    /\ call.fed = <<>> => call.out = EmptyDigest
                    /\ call.fed = <<<<9>>>> => call.out = TestU8Digest

C5_Witness ==
    \E c \in Threads :
        /\ calls[c].pc = "done"
        /\ calls[c].fed = <<<<1>>, <<2>>>>
        /\ calls[c].out = Sha256Finalize(<<1, 2>>)

\* the two field values of a two-field record, in declared order
FirstField(x) == x.v[Declared(x.ty).list[1].ident[1]]
SecondField(x) == x.v[Declared(x.ty).list[2].ident[1]]
TwoFieldRecord(x) == x.ty \in {"AB", "BA", "XY", "YX"}

\* C6, as the specification states it: for a record with two fields holding
\* non-identical values, the record type that declares the two fields in the
\* other order is fed different bytes and gets a different digest.
C6_SwapAlwaysChangesDigest ==
    \A c, d \in Threads :
        (/\ calls[c].pc = "done" /\ calls[d].pc = "done"
         /\ TwoFieldRecord(calls[c].data)
         /\ SameValue(calls[d].data, Swapped(calls[c].data))
         /\ ~SameValue(FirstField(calls[c].data), SecondField(calls[c].data))) =>
              /\ calls[c].sha # calls[d].sha
              /\ calls[c].out # calls[d].out

\* C6, amended: when the two fields' encodings have the same length (as for
\* two fields of one fixed-width primitive type) and are not the same bytes,
\* the record type that declares the two fields in the other order is fed
\* different bytes and gets a different digest.
C6_SwapOfEqualWidthFieldsChangesDigest ==
    \A c, d \in Threads :
        (/\ calls[c].pc = "done" /\ calls[d].pc = "done"
         /\ TwoFieldRecord(calls[c].data)
         /\ SameValue(calls[d].data, Swapped(calls[c].data))
         /\ Len(Encoding(FirstField(calls[c].data))) = Len(Encoding(SecondField(calls[c].data)))
         /\ Encoding(FirstField(calls[c].data)) # Encoding(SecondField(calls[c].data))) =>
              /\ calls[c].sha # calls[d].sha
              /\ calls[c].out # calls[d].out

C6_Witness ==
    /\ Cardinality(Threads) = 2
    /\ \A c \in Threads : calls[c].pc = "done"
    /\ SameValue(calls[1].data, StructV("XY", [x |-> Small("u16", 1), y |-> Small("u16", 257)]))
    /\ calls[2].data.ty = "YX"
    /\ calls[1].sha = <<1, 0, 1, 1>>
    /\ calls[2].sha = <<1, 1, 1, 0>>
    /\ calls[1].out # calls[2].out

\* the item has no fields at all, or is not a struct
Fieldless(item) == item.data = "Struct" /\ (item.style = "Unit" \/ item.list = <<>>)
MultiVariant(item) == item.data \in {"Enum", "Union"}

\* C7: the expansion of every enum, union, unit struct and struct with an
\* empty field list panics; no impl is generated for such an item.
C7_UnsupportedShapesRejected ==
    \A i \in 1..Len(expansions) :
        (MultiVariant(crate[i]) \/ Fieldless(crate[i])) => expansions[i].panic # ""

\* C8: the expansion of every struct with n >= 1 positional fields returns
\* an impl whose update visits the n positions in order.
C8_PositionalRecordsSupported ==
    \A i \in 1..Len(expansions) :
        (crate[i].data = "Struct" /\ crate[i].style = "Unnamed" /\ crate[i].list # <<>>) =>
              /\ expansions[i].panic = ""
              /\ Len(expansions[i].fields_code) = Len(crate[i].list)

\* the whole text of a Vec<String>
RECURSIVE Joined(_)
Joined(strings) == IF strings = <<>> THEN <<>> ELSE Head(strings).v \o Joined(Tail(strings))

\* C9: two different Vec<String> values whose texts joined are the same
\* text are fed the same bytes and get the same digest; ["ab", "c"] and
\* ["a", "bc"] are such a pair, and so are ["a", "b"] and ["ab"].
C9_BoundaryAmbiguity ==
    \A c, d \in Threads :
        (/\ calls[c].pc = "done" /\ calls[d].pc = "done"
         /\ calls[c].data.ty = "Vec<String>" /\ calls[d].data.ty = "Vec<String>"
         /\ Joined(calls[c].data.v) = Joined(calls[d].data.v)) =>
              /\ calls[c].sha = calls[d].sha
              /\ calls[c].out = calls[d].out

C9_Witness ==
    /\ Cardinality(Threads) = 2
    /\ \A c \in Threads : calls[c].pc = "done"
    /\ SameValue(calls[1].data, VecStr(<<<<97, 98>>, <<99>>>>))
    /\ SameValue(calls[2].data, VecStr(<<<<97>>, <<98, 99>>>>))
    /\ calls[1].sha = <<97, 98, 99>>
    /\ calls[1].out = calls[2].out

\* C10: whatever the other thread has done so far, a call's accumulator
\* starts empty and holds what the call itself has encoded: finishing the
\* call alone from where it stands gives the bytes the value gets when it is
\* encoded alone, and when both calls have finished each output is the digest
\* of its own value's encoding.
C10_CallsAreIsolated ==
    \A c \in Threads :
        LET call == calls[c]
        IN call.pc \in {"update", "done"} =>
              /\ RunUpdate(call).sha = Encoding(call.data)
              /\ call.todo = <<call.data>> => call.sha = <<>>
              /\ (\A d \in Threads : calls[d].pc = "done") =>
                    call.out = Sha256Finalize(Encoding(call.data))

\* both calls are in the middle of their traversals, on different values
C10_Witness ==
    /\ Cardinality(Threads) = 2
    /\ \A c \in Threads :
          calls[c].pc = "update" /\ calls[c].fed # <<>> /\ calls[c].todo # <<>>
    /\ SameValue(calls[1].data, StructV("AB", [a |-> Small("u8", 1), b |-> Small("u16", 257)]))
    /\ SameValue(calls[2].data, StructV("BA", [a |-> Small("u8", 1), b |-> Small("u16", 257)]))

====
